---- MODULE Spec2Model ----
(***************************************************************************)
(* Model of agb_pong (src/main.rs): one ball, a player paddle on the left  *)
(* and an AI paddle on the right, stepped once per display refresh.        *)
(*                                                                         *)
(* The main loop is modelled statement by statement: pc names the          *)
(* statement of the loop body that runs next.  The methods of Ball, Paddle *)
(* and Entity are operators from the old value of the object to the new.   *)
(***************************************************************************)
EXTENDS Integers, Sequences, FiniteSets, TLC

VARIABLES
    ball,          \* Ball { entity }
    left_paddle,   \* Paddle { top, middle, bottom, velocity, which_side }
    right_paddle,  \* Paddle, driven by update_ai_paddle
    pc,            \* the statement of main that runs next
    frame,         \* number of completed iterations of the loop
    y_input,       \* history: the <<argument>> of the last left_paddle.move_paddle_with_input, or <<>>
    x_turned,      \* history: TRUE once ball.entity.velocity.x has been negated
    x_turns,       \* history: number of negations of ball.entity.velocity.x in this frame
    levelled,      \* history: TRUE once a frame ended with ball y = right middle y
    call,          \* history: the method called and the objects it was called on (MethodSpec only)
    ret            \* the value the called function returned (MethodSpec only)

vars == <<ball, left_paddle, right_paddle, pc, frame, y_input, x_turned, x_turns, levelled,
          call, ret>>

----------------------------------------------------------------------------
(* Program constants *)

WIDTH == 240
HEIGHT == 160
U16 == 65536

(* Bounds of the model *)

MaxFrames == 760

\* y_input before the first call: no argument yet
NoInput == <<>>
NoCall == [method |-> "main"]
NoRet == <<>>

----------------------------------------------------------------------------
(* Helpers of the language *)

\* Ord::clamp on i32
clamp(v, lo, hi) == IF v < lo THEN lo ELSE IF v > hi THEN hi ELSE v

\* `as u16` on an i32: the low 16 bits
as_u16(v) == v % U16

Vec(a, b) == [x |-> a, y |-> b]

----------------------------------------------------------------------------
(* Entity *)

Entity_new(collision_mask) ==
    [ sprite         |-> Vec(0, 0),
      collision_mask |-> collision_mask,
      position       |-> Vec(0, 0),
      velocity       |-> Vec(12, 48) ]

update_sprite_position(e) ==
    [e EXCEPT !.sprite = Vec(as_u16(e.position.x), as_u16(e.position.y))]

set_spawn(e, spawn) ==
    LET moved == [e EXCEPT !.position = spawn]
    IN  [moved EXCEPT !.sprite = Vec(as_u16(moved.position.x), as_u16(moved.position.y))]

\* mutant: rectangles that share an edge below count as overlapping
intersects_closed_bottom(e1, e2) ==
    LET e1_right  == e1.position.x + e1.collision_mask.x
        e1_bottom == e1.position.y + e1.collision_mask.y
        e2_right  == e2.position.x + e2.collision_mask.x
        e2_bottom == e2.position.y + e2.collision_mask.y
    IN  /\ e1.position.x < e2_right
        /\ e1_right > e2.position.x
        /\ e1.position.y < e2_bottom
        /\ e1_bottom >= e2.position.y

\* mutant: rectangles that share an edge on the right count as overlapping
intersects_closed(e1, e2) ==
    LET e1_right  == e1.position.x + e1.collision_mask.x
        e1_bottom == e1.position.y + e1.collision_mask.y
        e2_right  == e2.position.x + e2.collision_mask.x
        e2_bottom == e2.position.y + e2.collision_mask.y
    IN  /\ e1.position.x < e2_right
        /\ e1_right >= e2.position.x
        /\ e1.position.y < e2_bottom
        /\ e1_bottom > e2.position.y

intersects(e1, e2) ==
    LET e1_right  == e1.position.x + e1.collision_mask.x
        e1_bottom == e1.position.y + e1.collision_mask.y
        e2_right  == e2.position.x + e2.collision_mask.x
        e2_bottom == e2.position.y + e2.collision_mask.y
    IN  /\ e1.position.x < e2_right
        /\ e1_right > e2.position.x
        /\ e1.position.y < e2_bottom
        /\ e1_bottom > e2.position.y

----------------------------------------------------------------------------
(* Ball *)

Ball_new ==
    LET e0 == Entity_new(Vec(16, 16))
        e1 == [e0 EXCEPT !.velocity.x = 1]
        e2 == [e1 EXCEPT !.velocity.y = 1]
    IN  [entity |-> set_spawn(e2, Vec(50, 50))]

\* mutant: the position is integrated but not clamped
Ball_checks_and_keeps_in_bounds_unclamped(b) ==
    [b EXCEPT !.entity.position = Vec(b.entity.position.x + b.entity.velocity.x,
                                      b.entity.position.y + b.entity.velocity.y)]

Ball_checks_and_keeps_in_bounds(b) ==
    LET x1 == clamp(b.entity.position.x + b.entity.velocity.x, 0, WIDTH - 16)
        y1 == clamp(b.entity.position.y + b.entity.velocity.y, 0, HEIGHT - 16)
    IN  [b EXCEPT !.entity.position = Vec(x1, y1)]

\* mutant: the vertical bounce subtracts 2 instead of negating
bounce_if_hits_screen_bounds_subtract(b) ==
    LET b1 == IF b.entity.position.x = 0 \/ b.entity.position.x = WIDTH - 16
              THEN [b EXCEPT !.entity.velocity.x = -b.entity.velocity.x]
              ELSE b
    IN  IF b1.entity.position.y = 0 \/ b1.entity.position.y = HEIGHT - 16
        THEN [b1 EXCEPT !.entity.velocity.y = b1.entity.velocity.y - 2]
        ELSE b1

\* mutant: the vertical test misses the upper bound y = 0
bounce_if_hits_screen_bounds_floor_only(b) ==
    LET b1 == IF b.entity.position.x = 0 \/ b.entity.position.x = WIDTH - 16
              THEN [b EXCEPT !.entity.velocity.x = -b.entity.velocity.x]
              ELSE b
    IN  IF b1.entity.position.y = HEIGHT - 16
        THEN [b1 EXCEPT !.entity.velocity.y = -b1.entity.velocity.y]
        ELSE b1

\* mutant: the vertical test uses HEIGHT for the lower bound
bounce_if_hits_screen_bounds_height(b) ==
    LET b1 == IF b.entity.position.x = 0 \/ b.entity.position.x = WIDTH - 16
              THEN [b EXCEPT !.entity.velocity.x = -b.entity.velocity.x]
              ELSE b
    IN  IF b1.entity.position.y = 0 \/ b1.entity.position.y = HEIGHT
        THEN [b1 EXCEPT !.entity.velocity.y = -b1.entity.velocity.y]
        ELSE b1

\* mutant: the vertical test is an else-branch of the horizontal one
bounce_if_hits_screen_bounds_else_if(b) ==
    IF b.entity.position.x = 0 \/ b.entity.position.x = WIDTH - 16
    THEN [b EXCEPT !.entity.velocity.x = -b.entity.velocity.x]
    ELSE IF b.entity.position.y = 0 \/ b.entity.position.y = HEIGHT - 16
    THEN [b EXCEPT !.entity.velocity.y = -b.entity.velocity.y]
    ELSE b

bounce_if_hits_screen_bounds(b) ==
    LET b1 == IF b.entity.position.x = 0 \/ b.entity.position.x = WIDTH - 16
              THEN [b EXCEPT !.entity.velocity.x = -b.entity.velocity.x]
              ELSE b
    IN  IF b1.entity.position.y = 0 \/ b1.entity.position.y = HEIGHT - 16
        THEN [b1 EXCEPT !.entity.velocity.y = -b1.entity.velocity.y]
        ELSE b1

----------------------------------------------------------------------------
(* Paddle *)

Paddle_segment(x_pos_of_paddle, y_pos) ==
    LET e0 == Entity_new(Vec(14, 14))
        e1 == [e0 EXCEPT !.velocity.y = 3]
    IN  set_spawn(e1, Vec(x_pos_of_paddle, y_pos))

\* mutant: both sides are placed at the left edge
Paddle_new_left_edge(which_side) ==
    LET x_pos_of_paddle == IF which_side = "Left" THEN 1 ELSE 1
    IN  [ top        |-> Paddle_segment(x_pos_of_paddle, 34),
          middle     |-> Paddle_segment(x_pos_of_paddle, 50),
          bottom     |-> Paddle_segment(x_pos_of_paddle, 66),
          which_side |-> which_side,
          velocity   |-> Vec(0, 0) ]

Paddle_new(which_side) ==
    LET x_pos_of_paddle == IF which_side = "Left" THEN 1 ELSE 224
    IN  [ top        |-> Paddle_segment(x_pos_of_paddle, 34),
          middle     |-> Paddle_segment(x_pos_of_paddle, 50),
          bottom     |-> Paddle_segment(x_pos_of_paddle, 66),
          which_side |-> which_side,
          velocity   |-> Vec(0, 0) ]

\* mutant: the segments are integrated on both axes
Paddle_checks_and_keeps_in_bounds_both_axes(p) ==
    [p EXCEPT
        !.top.position    = Vec(p.top.position.x + p.top.velocity.x,
                                clamp(p.top.position.y + p.top.velocity.y, 0, HEIGHT - 48)),
        !.middle.position = Vec(p.middle.position.x + p.middle.velocity.x,
                                clamp(p.middle.position.y + p.middle.velocity.y, 16, HEIGHT - 32)),
        !.bottom.position = Vec(p.bottom.position.x + p.bottom.velocity.x,
                                clamp(p.bottom.position.y + p.bottom.velocity.y, 32, HEIGHT - 16))]

\* mutant: the segments are integrated but not clamped
Paddle_checks_and_keeps_in_bounds_unclamped(p) ==
    [p EXCEPT
        !.top.position.y    = p.top.position.y + p.top.velocity.y,
        !.middle.position.y = p.middle.position.y + p.middle.velocity.y,
        !.bottom.position.y = p.bottom.position.y + p.bottom.velocity.y]

\* mutant: the clamp ranges of top and bottom are exchanged
Paddle_checks_and_keeps_in_bounds_swapped(p) ==
    [p EXCEPT
        !.top.position.y    = clamp(p.top.position.y + p.top.velocity.y, 32, HEIGHT - 16),
        !.middle.position.y = clamp(p.middle.position.y + p.middle.velocity.y, 16, HEIGHT - 32),
        !.bottom.position.y = clamp(p.bottom.position.y + p.bottom.velocity.y, 0, HEIGHT - 48)]

\* mutant: every segment is clamped to the ball's range
Paddle_checks_and_keeps_in_bounds_same_range(p) ==
    [p EXCEPT
        !.top.position.y    = clamp(p.top.position.y + p.top.velocity.y, 0, HEIGHT - 16),
        !.middle.position.y = clamp(p.middle.position.y + p.middle.velocity.y, 0, HEIGHT - 16),
        !.bottom.position.y = clamp(p.bottom.position.y + p.bottom.velocity.y, 0, HEIGHT - 16)]

Paddle_checks_and_keeps_in_bounds(p) ==
    [p EXCEPT
        !.top.position.y    = clamp(p.top.position.y + p.top.velocity.y, 0, HEIGHT - 48),
        !.middle.position.y = clamp(p.middle.position.y + p.middle.velocity.y, 16, HEIGHT - 32),
        !.bottom.position.y = clamp(p.bottom.position.y + p.bottom.velocity.y, 32, HEIGHT - 16)]

\* mutant: the bottom segment's sprite is not updated
move_paddle_with_input_no_bottom(p, input) ==
    LET p1 == [p EXCEPT !.top.velocity.y = input,
                        !.middle.velocity.y = input,
                        !.bottom.velocity.y = input]
    IN  [p1 EXCEPT !.top    = update_sprite_position(p1.top),
                   !.middle = update_sprite_position(p1.middle)]

move_paddle_with_input(p, input) ==
    LET p1 == [p EXCEPT !.top.velocity.y = input,
                        !.middle.velocity.y = input,
                        !.bottom.velocity.y = input]
    IN  [p1 EXCEPT !.top    = update_sprite_position(p1.top),
                   !.middle = update_sprite_position(p1.middle),
                   !.bottom = update_sprite_position(p1.bottom)]

\* mutant: the returns are missing, every intersecting segment negates
checks_all_collisions_no_return(p, b) ==
    LET b1 == IF intersects(b.entity, p.top)
              THEN [b EXCEPT !.entity.velocity.x = -b.entity.velocity.x] ELSE b
        b2 == IF intersects(b1.entity, p.middle)
              THEN [b1 EXCEPT !.entity.velocity.x = -b1.entity.velocity.x] ELSE b1
    IN  IF intersects(b2.entity, p.bottom)
        THEN [b2 EXCEPT !.entity.velocity.x = -b2.entity.velocity.x] ELSE b2

\* the ball after checks_all_collisions(&mut self, ball: &mut Ball)
checks_all_collisions(p, b) ==
    IF intersects(b.entity, p.top)
    THEN [b EXCEPT !.entity.velocity.x = -b.entity.velocity.x]
    ELSE IF intersects(b.entity, p.middle)
    THEN [b EXCEPT !.entity.velocity.x = -b.entity.velocity.x]
    ELSE IF intersects(b.entity, p.bottom)
    THEN [b EXCEPT !.entity.velocity.x = -b.entity.velocity.x]
    ELSE b

\* the paddle after checks_all_collisions: no statement of the method assigns to self
checks_all_collisions_self(p, b) == p

\* mutant: the paddle moves away from the ball
update_ai_paddle_away(p, ball_entity, speed) ==
    LET vy == IF ball_entity.position.y < p.middle.position.y THEN speed
              ELSE IF ball_entity.position.y > p.middle.position.y THEN -speed
              ELSE 0
        p1 == [p EXCEPT !.velocity.y = vy]
    IN  move_paddle_with_input(p1, p1.velocity.y)

\* mutant: the paddle stays where it is when the ball is below it
update_ai_paddle_up_only(p, ball_entity, speed) ==
    LET vy == IF ball_entity.position.y < p.middle.position.y THEN -speed ELSE 0
        p1 == [p EXCEPT !.velocity.y = vy]
    IN  move_paddle_with_input(p1, p1.velocity.y)

\* mutant: the ball is compared with the top segment
update_ai_paddle_top(p, ball_entity, speed) ==
    LET vy == IF ball_entity.position.y < p.top.position.y THEN -speed
              ELSE IF ball_entity.position.y > p.top.position.y THEN speed
              ELSE 0
        p1 == [p EXCEPT !.velocity.y = vy]
    IN  move_paddle_with_input(p1, p1.velocity.y)

update_ai_paddle(p, ball_entity, speed) ==
    LET vy == IF ball_entity.position.y < p.middle.position.y THEN -speed
              ELSE IF ball_entity.position.y > p.middle.position.y THEN speed
              ELSE 0
        p1 == [p EXCEPT !.velocity.y = vy]
    IN  move_paddle_with_input(p1, p1.velocity.y)

----------------------------------------------------------------------------
(* main: the loop body, one action per statement *)

\* the values of input.y_tri() as i32
Tri == {-1, 0, 1}

Init ==
    /\ ball = Ball_new
    /\ right_paddle = Paddle_new("Right")
    /\ left_paddle = Paddle_new("Left")
    /\ pc = "ball_bounds"
    /\ frame = 0
    /\ y_input = NoInput
    /\ x_turned = FALSE
    /\ x_turns = 0
    /\ levelled = FALSE
    /\ call = NoCall
    /\ ret = NoRet

BallBounds ==
    /\ pc = "ball_bounds"
    /\ ball' = Ball_checks_and_keeps_in_bounds(ball)
    /\ x_turns' = 0
    /\ pc' = "left_bounds"
    /\ UNCHANGED <<left_paddle, right_paddle, frame, y_input, x_turned, levelled, call, ret>>

LeftBounds ==
    /\ pc = "left_bounds"
    /\ left_paddle' = Paddle_checks_and_keeps_in_bounds(left_paddle)
    /\ pc' = "right_bounds"
    /\ UNCHANGED <<ball, right_paddle, frame, y_input, x_turned, x_turns, levelled, call, ret>>

RightBounds ==
    /\ pc = "right_bounds"
    /\ right_paddle' = Paddle_checks_and_keeps_in_bounds(right_paddle)
    /\ pc' = "bounce"
    /\ UNCHANGED <<ball, left_paddle, frame, y_input, x_turned, x_turns, levelled, call, ret>>

\* the history of negations of velocity.x, kept by the three statements that can negate it
Turned ==
    LET negated == ball'.entity.velocity.x # ball.entity.velocity.x
    IN  /\ x_turned' = (x_turned \/ negated)
        /\ x_turns' = x_turns + (IF negated THEN 1 ELSE 0)

Bounce ==
    /\ pc = "bounce"
    /\ ball' = bounce_if_hits_screen_bounds(ball)
    /\ Turned
    /\ pc' = "left_collisions"
    /\ UNCHANGED <<left_paddle, right_paddle, frame, y_input, levelled, call, ret>>

LeftCollisions ==
    /\ pc = "left_collisions"
    /\ ball' = checks_all_collisions(left_paddle, ball)
    /\ left_paddle' = checks_all_collisions_self(left_paddle, ball)
    /\ Turned
    /\ pc' = "right_collisions"
    /\ UNCHANGED <<right_paddle, frame, y_input, levelled, call, ret>>

RightCollisions ==
    /\ pc = "right_collisions"
    /\ ball' = checks_all_collisions(right_paddle, ball)
    /\ right_paddle' = checks_all_collisions_self(right_paddle, ball)
    /\ Turned
    /\ pc' = "ball_sprite"
    /\ UNCHANGED <<left_paddle, frame, y_input, levelled, call, ret>>

BallSprite ==
    /\ pc = "ball_sprite"
    /\ ball' = [ball EXCEPT !.entity = update_sprite_position(ball.entity)]
    /\ pc' = "left_input"
    /\ UNCHANGED <<left_paddle, right_paddle, frame, y_input, x_turned, x_turns, levelled, call, ret>>

LeftInput ==
    /\ pc = "left_input"
    /\ \E tri \in Tri :
        /\ left_paddle' = move_paddle_with_input(left_paddle, tri)
        /\ y_input' = <<tri>>
    /\ pc' = "right_ai"
    /\ UNCHANGED <<ball, right_paddle, frame, x_turned, x_turns, levelled, call, ret>>

RightAi ==
    /\ pc = "right_ai"
    /\ right_paddle' = update_ai_paddle(right_paddle, ball.entity, 1)
    /\ levelled' = (levelled \/ ball.entity.position.y = right_paddle.middle.position.y)
    /\ pc' = "commit"
    /\ UNCHANGED <<ball, left_paddle, frame, y_input, x_turned, x_turns, call, ret>>

\* busy_wait_for_vblank, object.commit, input.update: the frame is presented
Commit ==
    /\ pc = "commit"
    /\ frame < MaxFrames
    /\ frame' = frame + 1
    /\ pc' = "ball_bounds"
    /\ UNCHANGED <<ball, left_paddle, right_paddle, y_input, x_turned, x_turns, levelled, call, ret>>

Next ==
    \/ BallBounds
    \/ LeftBounds
    \/ RightBounds
    \/ Bounce
    \/ LeftCollisions
    \/ RightCollisions
    \/ BallSprite
    \/ LeftInput
    \/ RightAi
    \/ Commit

Spec == Init /\ [][Next]_vars

----------------------------------------------------------------------------
(* main: the loop body as one step, a whole frame from the integration of  *)
(* the ball to the commit. The only suspension point of the loop is the    *)
(* wait for vblank; FrameSpec takes it to return always.                   *)

\* how often velocity.x differs between two consecutive values of the ball
Negations(b0, b1, b2, b3) ==
      (IF b1.entity.velocity.x # b0.entity.velocity.x THEN 1 ELSE 0)
    + (IF b2.entity.velocity.x # b1.entity.velocity.x THEN 1 ELSE 0)
    + (IF b3.entity.velocity.x # b2.entity.velocity.x THEN 1 ELSE 0)

\* frames the ball takes from a horizontal wall to the other one and back
Period == 2 * (HEIGHT - 16)

\* frames of FrameSpec: a Period of the ball's vertical motion and a third of one
FairFrames == 384

\* busy_wait_for_vblank returns and the frame is presented
Vblank ==
    /\ pc = "ball_bounds"
    /\ frame < FairFrames
    /\ frame' = frame + 1

Frame ==
    /\ Vblank
    /\ \E moved \in {Ball_checks_and_keeps_in_bounds(ball)},
          left \in {Paddle_checks_and_keeps_in_bounds(left_paddle)},
          right \in {Paddle_checks_and_keeps_in_bounds(right_paddle)} :
       \E bounced \in {bounce_if_hits_screen_bounds(moved)} :
       \E after_left \in {checks_all_collisions(left, bounced)} :
       \E after_right \in {checks_all_collisions(right, after_left)} :
       \E shown \in {[after_right EXCEPT
                        !.entity = update_sprite_position(after_right.entity)]},
          turns \in {Negations(moved, bounced, after_left, after_right)} :
            /\ ball' = shown
            /\ \E tri \in Tri :
                /\ left_paddle' = move_paddle_with_input(left, tri)
                /\ y_input' = <<tri>>
            /\ right_paddle' = update_ai_paddle(right, shown.entity, 1)
            /\ x_turns' = turns
            /\ x_turned' = (x_turned \/ turns > 0)
            /\ levelled' = (levelled \/ shown.entity.position.y = right.middle.position.y)
    /\ UNCHANGED <<pc, call, ret>>

\* every step is a whole frame, and the wait for vblank does not block for ever
FrameSpec == Init /\ [][Frame]_vars /\ WF_frame(Vblank)

----------------------------------------------------------------------------
(* MethodSpec: one call of a method on objects drawn from bounded sets.     *)
(* call keeps the method's name and the objects as they were at the call.  *)

Reach == 17
MaxSpeed == 2
MaxPos == 3
MaxMask == 2

BallAt(x, y, vx, vy) ==
    [entity |-> [Ball_new.entity EXCEPT !.position = Vec(x, y),
                                        !.velocity = Vec(vx, vy)]]

\* a paddle in its shape, top segment at y = t, segments moving at v
PaddleAt(which_side, t, v) ==
    LET p == Paddle_new(which_side)
    IN  [p EXCEPT !.top.position.y = t,
                  !.middle.position.y = t + 16,
                  !.bottom.position.y = t + 32,
                  !.top.velocity.y = v,
                  !.middle.velocity.y = v,
                  !.bottom.velocity.y = v]

BallXs == 0 .. (WIDTH - 16)
BallYs == 0 .. (HEIGHT - 16)
Unit == {-1, 1}
Sides == {"Left", "Right"}
TopYs == {0, 34, HEIGHT - 48}

\* an entity with its rectangle at (x, y), w wide and h high
EntityAt(x, y, w, h) == [Entity_new(Vec(w, h)) EXCEPT !.position = Vec(x, y)]

\* the entities intersects is called on: positions 0..MaxPos, masks 1..MaxMask
SmallEntities ==
    {EntityAt(x, y, w, h) : x \in 0 .. MaxPos, y \in 0 .. MaxPos,
                            w \in 1 .. MaxMask, h \in 1 .. MaxMask}

\* ball columns within Reach of the paddle's column
NearXs(which_side) ==
    LET px == Paddle_new(which_side).top.position.x
    IN  {x \in BallXs : x >= px - Reach /\ x <= px + Reach}

MethodInit ==
    /\ right_paddle = Paddle_new("Right")
    /\ frame = 0
    /\ y_input = NoInput
    /\ x_turned = FALSE
    /\ x_turns = 0
    /\ levelled = FALSE
    /\ ret = NoRet
    /\ pc = "call"
    /\ \/ /\ \E x \in BallXs, y \in BallYs, vx \in Unit, vy \in Unit :
                ball = BallAt(x, y, vx, vy)
          /\ left_paddle = Paddle_new("Left")
          /\ call = [method |-> "bounce_if_hits_screen_bounds",
                     ball |-> ball, paddle |-> left_paddle, speed |-> 0]
       \/ /\ \E side \in Sides, t \in TopYs :
                /\ left_paddle = PaddleAt(side, t, 0)
                /\ \E x \in NearXs(side), y \in BallYs, vx \in Unit, vy \in Unit :
                      ball = BallAt(x, y, vx, vy)
          /\ call = [method |-> "checks_all_collisions",
                     ball |-> ball, paddle |-> left_paddle, speed |-> 0]
       \/ /\ \E t \in 0 .. (HEIGHT - 48), y \in BallYs :
                /\ left_paddle = PaddleAt("Right", t, 3)
                /\ ball = BallAt(50, y, 1, 1)
          /\ \E speed \in 1 .. MaxSpeed :
                call = [method |-> "update_ai_paddle",
                        ball |-> ball, paddle |-> left_paddle, speed |-> speed]
       \/ /\ ball = Ball_new
          /\ left_paddle = Paddle_new("Left")
          /\ \E a \in SmallEntities, b \in SmallEntities :
                call = [method |-> "intersects", e1 |-> a, e2 |-> b]

CallBounce ==
    /\ pc = "call"
    /\ call.method = "bounce_if_hits_screen_bounds"
    /\ ball' = bounce_if_hits_screen_bounds(ball)
    /\ pc' = "returned"
    /\ UNCHANGED <<left_paddle, right_paddle, frame, y_input, x_turned, x_turns, levelled, call, ret>>

CallCollisions ==
    /\ pc = "call"
    /\ call.method = "checks_all_collisions"
    /\ ball' = checks_all_collisions(left_paddle, ball)
    /\ left_paddle' = checks_all_collisions_self(left_paddle, ball)
    /\ pc' = "returned"
    /\ UNCHANGED <<right_paddle, frame, y_input, x_turned, x_turns, levelled, call, ret>>

CallAi ==
    /\ pc = "call"
    /\ call.method = "update_ai_paddle"
    /\ left_paddle' = update_ai_paddle(left_paddle, ball.entity, call.speed)
    /\ pc' = "returned"
    /\ UNCHANGED <<ball, right_paddle, frame, y_input, x_turned, x_turns, levelled, call, ret>>

\* intersects(e1, e2), and intersects with the arguments exchanged
CallIntersects ==
    /\ pc = "call"
    /\ call.method = "intersects"
    /\ ret' = [forward  |-> intersects(call.e1, call.e2),
               backward |-> intersects(call.e2, call.e1)]
    /\ pc' = "returned"
    /\ UNCHANGED <<ball, left_paddle, right_paddle, frame, y_input, x_turned, x_turns,
                   levelled, call>>

MethodNext ==
    \/ CallBounce
    \/ CallCollisions
    \/ CallAi
    \/ CallIntersects

MethodSpec == MethodInit /\ [][MethodNext]_vars

----------------------------------------------------------------------------
(* Claims *)

Paddles == {left_paddle, right_paddle}

\* C1: in every state of the main loop the ball's position, as left by
\* checks_and_keeps_in_bounds, satisfies 0 <= x <= WIDTH-16 and 0 <= y <= HEIGHT-16.
C1_BallInBounds ==
    /\ 0 <= ball.entity.position.x /\ ball.entity.position.x <= WIDTH - 16
    /\ 0 <= ball.entity.position.y /\ ball.entity.position.y <= HEIGHT - 16

\* the ball, shown at x = 0 in the last frame, was integrated against the left wall:
\* the clamp absorbed the step
C1_Witness ==
    /\ pc = "left_bounds"
    /\ ball.entity.sprite.x = 0
    /\ ball.entity.position.x = 0
    /\ ball.entity.velocity.x = -1

\* C2: in every state of the main loop both components of the ball's velocity
\* are -1 or +1.
C2_UnitVelocity ==
    /\ ball.entity.velocity.x \in {-1, 1}
    /\ ball.entity.velocity.y \in {-1, 1}

\* the left paddle has just turned a ball that the right paddle and a wall turned before
C2_Witness ==
    /\ pc = "right_collisions"
    /\ intersects(ball.entity, left_paddle.middle)
    /\ ball.entity.velocity.x = 1
    /\ x_turned

\* C3: for both paddles, in every state, top.y is in [0, HEIGHT-48], middle.y in
\* [16, HEIGHT-32] and bottom.y in [32, HEIGHT-16].
C3_SegmentsInRange ==
    \A p \in Paddles :
        /\ 0 <= p.top.position.y /\ p.top.position.y <= HEIGHT - 48
        /\ 16 <= p.middle.position.y /\ p.middle.position.y <= HEIGHT - 32
        /\ 32 <= p.bottom.position.y /\ p.bottom.position.y <= HEIGHT - 16

\* the player paddle driven down into the lower edge, the AI paddle at the upper edge
C3_Witness ==
    /\ pc = "right_bounds"
    /\ y_input = <<1>>
    /\ left_paddle.top.position.y = HEIGHT - 48
    /\ right_paddle.top.position.y = 0

\* C4: for both paddles, in every state, middle.y = top.y + 16 and
\* bottom.y = middle.y + 16, also when segments are clamped at a screen edge.
C4_FixedOffsets ==
    \A p \in Paddles :
        /\ p.middle.position.y = p.top.position.y + 16
        /\ p.bottom.position.y = p.middle.position.y + 16

\* the player paddle driven up while it is already at the upper edge
C4_Witness ==
    /\ pc = "right_bounds"
    /\ y_input = <<-1>>
    /\ left_paddle.top.position.y = 0
    /\ left_paddle.middle.position.y = 16
    /\ left_paddle.bottom.position.y = 32
    /\ frame > 40

Returned(method) == pc = "returned" /\ call.method = method

\* C5: bounce_if_hits_screen_bounds negates velocity.x iff position.x is 0 or WIDTH-16
\* and leaves it unchanged otherwise; independently it negates velocity.y iff
\* position.y is 0 or HEIGHT-16; it does not modify the position.
C5_BounceEffect ==
    Returned("bounce_if_hits_screen_bounds") =>
        LET old == call.ball.entity
            new == ball.entity
            at_x == old.position.x = 0 \/ old.position.x = WIDTH - 16
            at_y == old.position.y = 0 \/ old.position.y = HEIGHT - 16
        IN  /\ (new.velocity.x = -old.velocity.x) <=> at_x
            /\ (new.velocity.x = old.velocity.x) <=> ~at_x
            /\ (new.velocity.y = -old.velocity.y) <=> at_y
            /\ (new.velocity.y = old.velocity.y) <=> ~at_y
            /\ new.position = old.position

\* a call in the lower right corner: both components were negated
C5_Witness ==
    /\ Returned("bounce_if_hits_screen_bounds")
    /\ call.ball.entity.position = Vec(WIDTH - 16, HEIGHT - 16)
    /\ call.ball.entity.velocity = Vec(1, 1)
    /\ ball.entity.velocity = Vec(-1, -1)

\* C6: checks_all_collisions negates the ball's velocity.x exactly once if the ball
\* intersects at least one of top, middle, bottom (also when it overlaps two of them)
\* and leaves it unchanged otherwise; it never changes the ball's velocity.y, the
\* ball's position or the paddle.
C6_CollisionEffect ==
    Returned("checks_all_collisions") =>
        LET old == call.ball.entity
            new == ball.entity
            hit == \/ intersects(old, call.paddle.top)
                   \/ intersects(old, call.paddle.middle)
                   \/ intersects(old, call.paddle.bottom)
        IN  /\ hit => new.velocity.x = -old.velocity.x
            /\ ~hit => new.velocity.x = old.velocity.x
            /\ new.velocity.y = old.velocity.y
            /\ new.position = old.position
            /\ left_paddle = call.paddle

\* a call with the ball over both top and middle: one negation
C6_Witness ==
    /\ Returned("checks_all_collisions")
    /\ intersects(call.ball.entity, call.paddle.top)
    /\ intersects(call.ball.entity, call.paddle.middle)
    /\ ball.entity.velocity.x = -call.ball.entity.velocity.x

\* C7: after update_ai_paddle(ball, speed) the paddle's velocity.y is -speed if
\* ball.y < middle.y, +speed if ball.y > middle.y and 0 if they are equal, and the
\* velocity.y of top, middle and bottom equals that value.
C7_AiVelocity ==
    Returned("update_ai_paddle") =>
        LET by == call.ball.entity.position.y
            my == call.paddle.middle.position.y
            want == IF by < my THEN -call.speed ELSE IF by > my THEN call.speed ELSE 0
        IN  /\ left_paddle.velocity.y = want
            /\ left_paddle.top.velocity.y = want
            /\ left_paddle.middle.velocity.y = want
            /\ left_paddle.bottom.velocity.y = want

\* the ball at y = 40 above a middle segment at y = 50, speed 1: the paddle moves up
C7_Witness ==
    /\ Returned("update_ai_paddle")
    /\ call.ball.entity.position.y = 40
    /\ call.paddle.middle.position.y = 50
    /\ call.speed = 1
    /\ left_paddle.velocity.y = -1
    /\ left_paddle.bottom.velocity.y = -1

\* the ball intersects one of the three segments of paddle p
Touches(p) ==
    \/ intersects(ball.entity, p.top)
    \/ intersects(ball.entity, p.middle)
    \/ intersects(ball.entity, p.bottom)

\* C8, as claimed: from the initial state, velocity.x is +1 until it is negated for
\* the first time, and that happens in the frame in which the ball's x equals WIDTH-16.
C8_FirstTurnAtWall ==
    [][ /\ ~x_turned => ball.entity.velocity.x = 1
        /\ (~x_turned /\ x_turned') => ball.entity.position.x = WIDTH - 16 ]_vars

\* C8, amended: from the initial state, velocity.x is +1 until it is negated for the
\* first time; that happens in right_paddle.checks_all_collisions, in the frame in
\* which the ball first intersects a segment of the right paddle, at
\* x = right paddle's x - 15 = 209, before x has reached WIDTH-16; velocity.x is -1
\* from that statement on and on no earlier frame.
C8_FirstTurnAtRightPaddle ==
    [][ /\ ~x_turned => ball.entity.velocity.x = 1
        /\ (~x_turned /\ x_turned') =>
              /\ pc = "right_collisions"
              /\ Touches(right_paddle)
              /\ ball.entity.position.x = right_paddle.middle.position.x - 15
              /\ ball.entity.position.x < WIDTH - 16
              /\ ball'.entity.velocity.x = -1 ]_vars

\* the first negation has just happened: the ball is at x = 209 and moves left
C8_Witness ==
    /\ pc = "ball_sprite"
    /\ x_turned
    /\ ball.entity.sprite.x = 208
    /\ ball.entity.position.x = 209
    /\ ball.entity.velocity.x = -1
    /\ Touches(right_paddle)

\* C9, as claimed: every change of a left segment's y by a frame's integration is
\* the argument of an earlier move_paddle_with_input, limited by the segment's
\* clamp range; the initial speed 3 is never applied.
C9_InputIsDelta ==
    [][ pc = "left_bounds" =>
          /\ y_input # NoInput
          /\ left_paddle'.top.position.y =
                clamp(left_paddle.top.position.y + y_input[1], 0, HEIGHT - 48)
          /\ left_paddle'.middle.position.y =
                clamp(left_paddle.middle.position.y + y_input[1], 16, HEIGHT - 32)
          /\ left_paddle'.bottom.position.y =
                clamp(left_paddle.bottom.position.y + y_input[1], 32, HEIGHT - 16) ]_vars

\* C10, as claimed: when the ball's coordinate on an axis equals a screen bound at
\* the end of a frame, the next frame's integration moves the ball one pixel away
\* from that bound on that axis.
C10_BounceTakesEffect ==
    [][ pc = "ball_bounds" =>
          /\ ball.entity.position.x = 0 => ball'.entity.position.x = 1
          /\ ball.entity.position.x = WIDTH - 16 => ball'.entity.position.x = WIDTH - 17
          /\ ball.entity.position.y = 0 => ball'.entity.position.y = 1
          /\ ball.entity.position.y = HEIGHT - 16 => ball'.entity.position.y = HEIGHT - 17 ]_vars

\* C11: in no state does the ball intersect a segment of the left paddle and a
\* segment of the right paddle, so no frame has both paddles' checks_all_collisions
\* negate velocity.x.
C11_OnePaddleAtATime == ~(Touches(left_paddle) /\ Touches(right_paddle))

\* the checks of both paddles have run on a ball over the left paddle: only the
\* left one negated
C11_Witness ==
    /\ pc = "ball_sprite"
    /\ Touches(left_paddle)
    /\ ~Touches(right_paddle)
    /\ x_turns = 1
    /\ ball.entity.position.x > 0

\* P holds of each of the seven entities of main
EveryEntity(P(_)) ==
    /\ P(ball.entity)
    /\ P(left_paddle.top) /\ P(left_paddle.middle) /\ P(left_paddle.bottom)
    /\ P(right_paddle.top) /\ P(right_paddle.middle) /\ P(right_paddle.bottom)

\* the sprite of e is where e is
SpriteCurrent(e) == e.sprite = e.position

\* C12: at every commit the sprite coordinates last pushed for the ball and for
\* each of the six paddle segments equal the entity's position.
C12_SpritesCurrentAtCommit ==
    pc = "commit" => EveryEntity(SpriteCurrent)

\* a commit of a frame that moved the ball and both paddles
C12_Witness ==
    /\ pc = "commit"
    /\ ball.entity.sprite = ball.entity.position
    /\ ball.entity.position.y = HEIGHT - 16
    /\ y_input = <<-1>>
    /\ left_paddle.top.sprite.y = 20
    /\ right_paddle.bottom.sprite.y = HEIGHT - 16

\* e1 and e2 share an edge: e1 ends where e2 begins, horizontally or vertically
SharesEdge(e1, e2) ==
    \/ e1.position.x + e1.collision_mask.x = e2.position.x
    \/ e1.position.y + e1.collision_mask.y = e2.position.y

\* C13: intersects(a, b) = intersects(b, a), and rectangles that only share an edge
\* (a.x + a.w = b.x or a.y + a.h = b.y) do not intersect.
C13_IntersectsSymmetricOpen ==
    Returned("intersects") =>
        /\ ret.forward = ret.backward
        /\ SharesEdge(call.e1, call.e2) => ~ret.forward
        /\ SharesEdge(call.e2, call.e1) => ~ret.forward

\* two unit squares side by side in one row
C13_Witness ==
    /\ Returned("intersects")
    /\ call.e1.position = Vec(1, 1) /\ call.e1.collision_mask = Vec(1, 1)
    /\ call.e2.position = Vec(2, 1) /\ call.e2.collision_mask = Vec(1, 1)
    /\ ret.forward = FALSE
    /\ ret.backward = FALSE

\* C14: once a frame has ended with the ball's y equal to the right paddle's
\* middle y, at the end of every later frame the middle y differs by at most 1
\* from the ball's y clamped into [16, HEIGHT-32].
C14_AiTracks ==
    (pc = "commit" /\ levelled) =>
        LET by == clamp(ball.entity.position.y, 16, HEIGHT - 32)
            my == right_paddle.middle.position.y
        IN  by - my \in {-1, 0, 1}

\* tracking a ball that is below the middle segment's range: the middle segment
\* rests at HEIGHT-32
C14_Witness ==
    /\ pc = "commit"
    /\ levelled
    /\ ball.entity.position.y = HEIGHT - 16
    /\ right_paddle.middle.position.y = HEIGHT - 32
    /\ right_paddle.velocity.y = 1

\* C15: in every state the three segments of the left paddle have x = 1 and those
\* of the right paddle x = 224; the x-velocity 12 left by Entity::new is never applied.
C15_PaddleColumnsFixed ==
    /\ left_paddle.top.position.x = 1
    /\ left_paddle.middle.position.x = 1
    /\ left_paddle.bottom.position.x = 1
    /\ right_paddle.top.position.x = 224
    /\ right_paddle.middle.position.x = 224
    /\ right_paddle.bottom.position.x = 224

\* both paddles have been integrated with velocity.x = 12 in their segments
C15_Witness ==
    /\ pc = "bounce"
    /\ left_paddle.top.velocity = Vec(12, 1)
    /\ right_paddle.top.velocity = Vec(12, -1)
    /\ left_paddle.top.position = Vec(1, 60)
    /\ right_paddle.top.position.x = 224

\* C16: in every state of the main loop the ball's x is below WIDTH-16: a segment
\* of the right paddle turns the ball back at x = 209.
C16_AiNeverMisses ==
    /\ ball.entity.position.x < WIDTH - 16
    /\ ball.entity.position.x <= right_paddle.middle.position.x - 15

\* the ball is turned back at x = 209 for the second time
C16_Witness ==
    /\ pc = "ball_sprite"
    /\ frame > 400
    /\ ball.entity.position.x = 209
    /\ ball.entity.velocity.x = -1
    /\ x_turns = 1
    /\ Touches(right_paddle)

\* C17, as claimed: in a frame velocity.x is negated at most once; the wall bounce
\* and a paddle bounce never both fire in one frame.
C17_OneTurnPerFrame == x_turns <= 1

\* C18: in every frame the ball's y + velocity.y is within [0, HEIGHT-16] before
\* clamping and the integration changes y by exactly one pixel.
C18_VerticalClampIdle ==
    [][ pc = "ball_bounds" =>
          LET y == ball.entity.position.y + ball.entity.velocity.y
          IN  /\ 0 <= y /\ y <= HEIGHT - 16
              /\ ball'.entity.position.y = y
              /\ ball'.entity.position.y - ball.entity.position.y \in {-1, 1} ]_vars

\* the ball, shown on the floor in the last frame, has left it
C18_Witness ==
    /\ pc = "left_bounds"
    /\ ball.entity.sprite.y = HEIGHT - 16
    /\ ball.entity.position.y = HEIGHT - 17
    /\ ball.entity.velocity.y = -1

CoordinatesFit(e) ==
    /\ 0 <= e.position.x /\ e.position.x <= WIDTH - 16
    /\ 0 <= e.position.y /\ e.position.y <= HEIGHT - 16
    /\ as_u16(e.position.x) = e.position.x
    /\ as_u16(e.position.y) = e.position.y

\* P holds of the three segments of paddle p
EverySegment(p, P(_)) == P(p.top) /\ P(p.middle) /\ P(p.bottom)

\* C20: every coordinate handed to a sprite, by set_spawn in the constructors and by
\* update_sprite_position in the loop, is a non-negative integer below 2^16 (ball x
\* in [0,224], y in [0,144]; paddle x in {1,224}, y in [0,144]), so the `as u16`
\* casts do not wrap and the sprite coordinate is the i32 position.
C20_CastsDoNotWrap ==
    /\ (pc = "ball_bounds" /\ frame = 0) =>
            EveryEntity(CoordinatesFit) /\ EveryEntity(SpriteCurrent)
    /\ pc = "ball_sprite" => CoordinatesFit(ball.entity)
    /\ pc = "left_input" =>
            SpriteCurrent(ball.entity) /\ EverySegment(left_paddle, CoordinatesFit)
    /\ pc = "right_ai" =>
            /\ EverySegment(left_paddle, SpriteCurrent)
            /\ EverySegment(right_paddle, CoordinatesFit)
    /\ pc = "commit" => EverySegment(right_paddle, SpriteCurrent)

\* sprites pushed at the extremes: the ball at y = 0, the left paddle's bottom
\* segment at y = HEIGHT-16
C20_Witness ==
    /\ pc = "commit"
    /\ ball.entity.sprite.y = 0 /\ ball.entity.position.y = 0
    /\ left_paddle.bottom.sprite.y = HEIGHT - 16
    /\ left_paddle.bottom.position.y = HEIGHT - 16

====
